---------------------------- MODULE Spec2Model ----------------------------
(***************************************************************************)
(* MidGen (src/midgen_gui.py): GeneratorWorker.run, the generation loop    *)
(* with its progress signals and the temp-file-then-replace export, and    *)
(* MainWindow, the form that validates the input and starts the worker on  *)
(* a thread.                                                               *)
(*                                                                         *)
(* Durations are exact rationals <<numerator, denominator>>.  The pitches  *)
(* of the events (the key, the chord degree, the melody pitches) are not   *)
(* part of the state: only the kind and the quarterLength of the events    *)
(* appended to the part are.                                               *)
(***************************************************************************)
EXTENDS Integers, Sequences, FiniteSets, TLC

VARIABLES
    worker,        \* w -> the fields set by GeneratorWorker.__init__, or NoWorker
    pc,            \* w -> the position of the thread executing run()
    measures,      \* w -> the local `measures` of run()
    i,             \* w -> the loop variable `i` of run()
    part,          \* w -> the set of [kind, quarterLength] appended to `part`
    signals,       \* w -> the signals emitted so far by this worker, in order
    exc,           \* w -> the step that raised inside the try block, or "none"
    handle,        \* w -> where the file opened by midi_file.open is now
    prior,         \* w -> the content of save_path when run() started
    fs,            \* path -> content of the file there, or Absent
    save_path,     \* MainWindow.save_path (the read-only QLineEdit)
    btn_generate,  \* MainWindow.btn_generate.isEnabled()
    dialog,        \* the modal QMessageBox the GUI thread is blocked in
    progress_bar,  \* MainWindow.progress_bar.value()
    request,       \* what the pending start_generation call read from the form
    self_worker,   \* MainWindow.worker
    delivered      \* w -> number of its signals already handled by the slots

wvars == <<worker, pc, measures, i, part, signals, exc, handle, prior>>
gvars == <<save_path, btn_generate, dialog, progress_bar, request, self_worker,
           delivered>>
vars == <<worker, pc, measures, i, part, signals, exc, handle, prior, fs,
          save_path, btn_generate, dialog, progress_bar, request, self_worker,
          delivered>>

-----------------------------------------------------------------------------
(* Rationals *)

RatLeq(a, b) == a[1] * b[2] <= b[1] * a[2]

RatEq(a, b) == a[1] * b[2] = b[1] * a[2]

\* Python's max(a, b): b only when b > a.
RatMax(a, b) == IF RatLeq(b, a) THEN a ELSE b

-----------------------------------------------------------------------------
(* int(text), as start_generation applies it to the text of a QLineEdit.   *)
(* A text is a sequence of one-character strings.                          *)

Digits == <<"0", "1", "2", "3", "4", "5", "6", "7", "8", "9">>

IsDigit(c) == \E d \in 1..10 : Digits[d] = c

DigitVal(c) == (CHOOSE d \in 1..10 : Digits[d] = c) - 1

RECURSIVE LStrip(_)
LStrip(s) == IF s # <<>> /\ Head(s) = " " THEN LStrip(Tail(s)) ELSE s

RECURSIVE RStrip(_)
RStrip(s) ==
    IF s # <<>> /\ s[Len(s)] = " " THEN RStrip(SubSeq(s, 1, Len(s) - 1)) ELSE s

\* Digits with single underscores between them only.
WellFormedDigits(s) ==
    /\ s # <<>>
    /\ IsDigit(s[1])
    /\ IsDigit(s[Len(s)])
    /\ \A k \in 1..Len(s) : IsDigit(s[k]) \/ s[k] = "_"
    /\ \A k \in 1..(Len(s) - 1) : ~(s[k] = "_" /\ s[k + 1] = "_")

RECURSIVE DigitsValue(_, _)
DigitsValue(s, acc) ==
    IF s = <<>> THEN acc
    ELSE IF Head(s) = "_" THEN DigitsValue(Tail(s), acc)
    ELSE DigitsValue(Tail(s), acc * 10 + DigitVal(Head(s)))

\* [ok |-> FALSE] stands for the ValueError int() raises.
ParseInt(text) ==
    LET t == RStrip(LStrip(text))
        signed == t # <<>> /\ t[1] \in {"+", "-"}
        body == IF signed THEN Tail(t) ELSE t
    IN  IF WellFormedDigits(body)
        THEN [ok |-> TRUE,
              val |-> IF signed /\ t[1] = "-" THEN -DigitsValue(body, 0)
                      ELSE DigitsValue(body, 0)]
        ELSE [ok |-> FALSE, val |-> 0]

-----------------------------------------------------------------------------
(* The arithmetic of GeneratorWorker *)

Min(a, b) == IF a <= b THEN a ELSE b

Max(a, b) == IF a >= b THEN a ELSE b

\* self.length = min(length_sec, 60)
ClampLength(length_sec) == Min(length_sec, 60)

\* self.crazy = max(-10, min(10, craziness))
ClampCrazy(craziness) == Max(-10, Min(10, craziness))

\* beats_needed = self.length * self.tempo / 60.0
\* measures = int(beats_needed // 4) + 1
\* The product is an exact integer; dividing it by 60.0 rounds to a double
\* that lies on the same side of every multiple of 4 as the exact quotient
\* (a quotient that is not a multiple of 4 is at least 1/60 away from one),
\* so the float floor division is the integer floor division by 240.
MeasureCount(length, tempo) == ((length * tempo) \div 240) + 1

\* The (i, measures) with measures <= 128 for which the double
\* i / measures * 100 falls just below the exact integer 100*i/measures, so
\* that int() truncates to one less than the exact floor (CPython, IEEE 754
\* binary64: int(29/50*100) = 57).
FloatShort == {<<29, 50>>, <<29, 100>>, <<57, 100>>, <<58, 100>>}

\* The share of the measures still to do instead of the share done.
PercentRemaining(idx, m) == 100 - ((idx * 100) \div m)

\* percent = int(i / measures * 100), for 0 <= i < measures
Percent(idx, m) ==
    ((idx * 100) \div m) - (IF <<idx, m>> \in FloatShort THEN 1 ELSE 0)

\* self.progress_changed.emit(100)
FinalProgress == 100

\* base_len = {'PAD':4,'CHORD':2,'BRASS':2}.get(self.pattern,1)
BaseLen(pattern) ==
    CASE pattern = "PAD" -> 4
      [] pattern = "CHORD" -> 2
      [] pattern = "BRASS" -> 2
      [] OTHER -> 1

\* length_factor = 1 + (-self.crazy/20)
\* chord_obj.quarterLength = max(0.25, base_len * length_factor)
ChordLength(pattern, crazy) ==
    RatMax(<<1, 4>>, <<BaseLen(pattern) * (20 - crazy), 20>>)

\* extra.quarterLength = 0.5
AccentLength == <<1, 2>>

\* if self.crazy > 5 and random.random() < (self.crazy-5)/10:
\* random.random() is in [0, 1), so the branch can be taken exactly when
\* (crazy - 5)/10 > 0, and can always be skipped.
AccentPossible(crazy) == crazy > 5 /\ crazy - 5 > 0

\* count = {'ARP':3,'PLUCK':4,'RAND': random.randint(2,6)}.get(self.pattern,2)
NoteCount(pattern, r) ==
    CASE pattern = "ARP" -> 3
      [] pattern = "PLUCK" -> 4
      [] pattern = "RAND" -> r
      [] OTHER -> 2

\* The craziness taken whole instead of in tenths.
NoteLengthUnscaled(crazy) ==
    RatMax(<<1, 8>>,
           IF crazy >= 0 THEN <<1, 1 + crazy>>
           ELSE <<1 + (IF crazy < 0 THEN -crazy ELSE crazy), 1>>)

\* if self.crazy >= 0: duration = 1.0 / (1 + self.crazy/10)
\* else:               duration = 1.0 * (1 + abs(self.crazy)/10)
\* note_obj.quarterLength = max(0.125, duration)
NoteLength(crazy) ==
    RatMax(<<1, 8>>,
           IF crazy >= 0 THEN <<10, 10 + crazy>>
           ELSE <<10 + (IF crazy < 0 THEN -crazy ELSE crazy), 10>>)

\* The [kind, quarterLength] of the events one iteration appends to `part`.
MeasureEvents(pattern, crazy, accent, r) ==
    {[kind |-> "chord", quarterLength |-> ChordLength(pattern, crazy)]}
    \cup (IF accent
          THEN {[kind |-> "accent", quarterLength |-> AccentLength]}
          ELSE {})
    \cup (IF NoteCount(pattern, r) > 0
          THEN {[kind |-> "note", quarterLength |-> NoteLength(crazy)]}
          ELSE {})

-----------------------------------------------------------------------------
(* Paths and files.  A path is a directory and a file name, the name a     *)
(* sequence of pieces so that its extension can be tested and extended.    *)

Workers == {"w1", "w2"}

\* The empty text of a QLineEdit; also "no file open".
NoPath == [dir |-> "", name |-> <<>>]

\* An open file whose directory entry another os.replace has overwritten.
Unlinked == [dir |-> "", name |-> <<"(unlinked)">>]

\* tmp_path = os.path.join(tempfile.gettempdir(), 'midgen_temp.mid')
TmpPath == [dir |-> "tmp", name |-> <<"midgen_temp", ".mid">>]

HomeA == [dir |-> "home", name |-> <<"a", ".mid">>]

HomeB == [dir |-> "home", name |-> <<"b", ".MID">>]

MissingA == [dir |-> "missing", name |-> <<"a", ".mid">>]

FilePaths == {TmpPath, HomeA, HomeB, MissingA}

\* tempfile.gettempdir() returns a directory that exists.
ExistingDirs == {"tmp", "home"}

Absent == [state |-> "absent", by |-> "none"]

PriorContent == [state |-> "prior", by |-> "none"]

\* A file that is not (yet) the whole MIDI file w serialized: truncated by
\* open(.., 'wb'), or holding only the bytes flushed so far.
Partial(w) == [state |-> "partial", by |-> w]

Complete(w) == [state |-> "complete", by |-> w]

ProgressSignal(val) == [sig |-> "progress", val |-> val, path |-> NoPath, msg |-> ""]

FinishedSignal(path) == [sig |-> "finished", val |-> 0, path |-> path, msg |-> ""]

ErrorSignal(msg) == [sig |-> "error", val |-> 0, path |-> NoPath, msg |-> msg]

NoWorker ==
    [tempo |-> 0, pattern |-> "", length |-> 0, save_path |-> NoPath, crazy |-> 0]

\* GeneratorWorker.__init__
GeneratorWorker(tempo_bpm, pattern_type, length_sec, path, craziness) ==
    [tempo |-> tempo_bpm,
     pattern |-> pattern_type,
     length |-> ClampLength(length_sec),
     save_path |-> path,
     crazy |-> ClampCrazy(craziness)]

-----------------------------------------------------------------------------
(* GeneratorWorker.run, one thread per worker *)

\* A caller other than MainWindow constructs a worker.
Construct(w, tempo_bpm, pattern_type, length_sec, path, craziness) ==
    /\ pc[w] = "new"
    /\ worker' = [worker EXCEPT
                    ![w] = GeneratorWorker(tempo_bpm, pattern_type, length_sec,
                                           path, craziness)]
    /\ pc' = [pc EXCEPT ![w] = "ready"]
    /\ UNCHANGED <<measures, i, part, signals, exc, handle, prior, fs>>
    /\ UNCHANGED gvars

\* Thread(target=worker.run).start() by that caller.
ThreadStart(w) ==
    /\ pc[w] = "ready"
    /\ pc' = [pc EXCEPT ![w] = "setup"]
    /\ prior' = [prior EXCEPT ![w] = fs[worker[w].save_path]]
    /\ UNCHANGED <<worker, measures, i, part, signals, exc, handle, fs>>
    /\ UNCHANGED gvars

\* Lines 45-61: the score, the key, and the number of measures.
Setup(w) ==
    /\ pc[w] = "setup"
    /\ measures' = [measures EXCEPT
                      ![w] = MeasureCount(worker[w].length, worker[w].tempo)]
    /\ i' = [i EXCEPT ![w] = 0]
    /\ pc' = [pc EXCEPT ![w] = "loop"]
    /\ UNCHANGED <<worker, part, signals, exc, handle, prior, fs>>
    /\ UNCHANGED gvars

\* One iteration of `for i in range(measures)`: i[w] is the index of the
\* iteration about to run, which is also the number of iterations done.
Measure(w) ==
    /\ pc[w] = "loop"
    /\ i[w] < measures[w]
    /\ \E accent \in BOOLEAN, r \in 2..6 :
          /\ accent => AccentPossible(worker[w].crazy)
          /\ part' = [part EXCEPT
                        ![w] = @ \cup MeasureEvents(worker[w].pattern,
                                                    worker[w].crazy, accent, r)]
    /\ signals' = [signals EXCEPT
                     ![w] = Append(@, ProgressSignal(Percent(i[w], measures[w])))]
    /\ i' = [i EXCEPT ![w] = @ + 1]
    /\ UNCHANGED <<worker, pc, measures, exc, handle, prior, fs>>
    /\ UNCHANGED gvars

\* The loop is exhausted: self.progress_changed.emit(100)
FinalEmit(w) ==
    /\ pc[w] = "loop"
    /\ ~(i[w] < measures[w])
    /\ signals' = [signals EXCEPT ![w] = Append(@, ProgressSignal(FinalProgress))]
    /\ pc' = [pc EXCEPT ![w] = "serialize"]
    /\ UNCHANGED <<worker, measures, i, part, exc, handle, prior, fs>>
    /\ UNCHANGED gvars

\* An exception raised at `step` inside the try block.
Raise(w, step) ==
    /\ exc' = [exc EXCEPT ![w] = step]
    /\ pc' = [pc EXCEPT ![w] = "except"]

\* score.append(part); midi_file = midi.translate.streamToMidiFile(score)
\* The library call may raise on the score it is given.
Serialize(w) ==
    /\ pc[w] = "serialize"
    /\ \/ pc' = [pc EXCEPT ![w] = "open"] /\ UNCHANGED exc
       \/ Raise(w, "serialize")
    /\ UNCHANGED <<worker, measures, i, part, signals, handle, prior, fs>>
    /\ UNCHANGED gvars

\* midi_file.open(tmp_path, 'wb'): creates or truncates the file.
Open(w) ==
    /\ pc[w] = "open"
    /\ \/ /\ fs' = [fs EXCEPT ![TmpPath] = Partial(w)]
          /\ handle' = [handle EXCEPT ![w] = TmpPath]
          /\ pc' = [pc EXCEPT ![w] = "write"]
          /\ UNCHANGED exc
       \/ /\ Raise(w, "open")
          /\ UNCHANGED <<fs, handle>>
    /\ UNCHANGED <<worker, measures, i, part, signals, prior>>
    /\ UNCHANGED gvars

\* midi_file.write(): bytes go to the open file, wherever it is linked now.
Write(w) ==
    /\ pc[w] = "write"
    /\ fs' = IF handle[w] \in FilePaths
             THEN [fs EXCEPT ![handle[w]] = Partial(w)]
             ELSE fs
    /\ \/ pc' = [pc EXCEPT ![w] = "close"] /\ UNCHANGED exc
       \/ Raise(w, "write")
    /\ UNCHANGED <<worker, measures, i, part, signals, handle, prior>>
    /\ UNCHANGED gvars

\* midi_file.close(): the rest is flushed.  The file is w's whole MIDI file
\* only if nobody else truncated or wrote it since w's write.
Close(w) ==
    /\ pc[w] = "close"
    /\ \/ /\ fs' = IF handle[w] \in FilePaths /\ fs[handle[w]] = Partial(w)
                   THEN [fs EXCEPT ![handle[w]] = Complete(w)]
                   ELSE fs
          /\ handle' = [handle EXCEPT ![w] = NoPath]
          /\ pc' = [pc EXCEPT ![w] = "replace"]
          /\ UNCHANGED exc
       \/ /\ Raise(w, "close")
          /\ UNCHANGED <<fs, handle>>
    /\ UNCHANGED <<worker, measures, i, part, signals, prior>>
    /\ UNCHANGED gvars

\* A replace that does not need the directory of its destination.
ReplaceableAnywhere(src, dst) == fs[src] # Absent

\* Whether os.replace(src, dst) finds its source and the directory of its
\* destination; it raises FileNotFoundError otherwise.
Replaceable(src, dst) == fs[src] # Absent /\ dst.dir \in ExistingDirs

\* os.replace(tmp_path, self.save_path): FileNotFoundError without a source
\* or without the destination's directory; any other OSError (another
\* device, permissions) may be raised too.  Renaming a file onto itself
\* does nothing.  Open files follow their file, not its name.
Replace(w) ==
    /\ pc[w] = "replace"
    /\ LET dst == worker[w].save_path IN
       \/ /\ Replaceable(TmpPath, dst)
          /\ fs' = IF dst = TmpPath THEN fs
                   ELSE [fs EXCEPT ![dst] = fs[TmpPath], ![TmpPath] = Absent]
          /\ handle' = IF dst = TmpPath THEN handle
                       ELSE [v \in Workers |->
                               IF handle[v] = TmpPath THEN dst
                               ELSE IF handle[v] = dst THEN Unlinked
                               ELSE handle[v]]
          /\ pc' = [pc EXCEPT ![w] = "finished"]
          /\ UNCHANGED exc
       \/ /\ ~Replaceable(TmpPath, dst)
          /\ Raise(w, "replace: FileNotFoundError")
          /\ UNCHANGED <<fs, handle>>
       \/ /\ Raise(w, "replace: OSError")
          /\ UNCHANGED <<fs, handle>>
    /\ UNCHANGED <<worker, measures, i, part, signals, prior>>
    /\ UNCHANGED gvars

\* The success path falling through into the error emission.
EmitFinishedAndError(w) ==
    /\ pc[w] = "finished"
    /\ signals' = [signals EXCEPT
                     ![w] = @ \o <<FinishedSignal(worker[w].save_path),
                                   ErrorSignal("finished")>>]
    /\ pc' = [pc EXCEPT ![w] = "done"]
    /\ UNCHANGED <<worker, measures, i, part, exc, handle, prior, fs>>
    /\ UNCHANGED gvars

\* self.finished.emit(self.save_path)
EmitFinished(w) ==
    /\ pc[w] = "finished"
    /\ signals' = [signals EXCEPT
                     ![w] = Append(@, FinishedSignal(worker[w].save_path))]
    /\ pc' = [pc EXCEPT ![w] = "done"]
    /\ UNCHANGED <<worker, measures, i, part, exc, handle, prior, fs>>
    /\ UNCHANGED gvars

\* except Exception as e: self.error.emit(str(e))
Except(w) ==
    /\ pc[w] = "except"
    /\ signals' = [signals EXCEPT ![w] = Append(@, ErrorSignal(exc[w]))]
    /\ pc' = [pc EXCEPT ![w] = "done"]
    /\ UNCHANGED <<worker, measures, i, part, exc, handle, prior, fs>>
    /\ UNCHANGED gvars

run(w) ==
    \/ Setup(w)
    \/ Measure(w)
    \/ FinalEmit(w)
    \/ Serialize(w)
    \/ Open(w)
    \/ Write(w)
    \/ Close(w)
    \/ Replace(w)
    \/ EmitFinished(w)
    \/ Except(w)

-----------------------------------------------------------------------------
(* MainWindow.  The GUI thread runs one handler at a time; a QMessageBox   *)
(* blocks its handler until the user closes it.  The worker's signals are  *)
(* emitted on another thread, so Qt queues them and the GUI thread runs    *)
(* the connected slots in the order of emission.                           *)

NoRequest ==
    [pending |-> FALSE, tempo_text |-> <<>>, length_text |-> <<>>,
     save_to |-> NoPath, msg |-> ""]

\* path.lower(), on the last piece of the file name
Lower(piece) == IF piece \in {".MID", ".Mid"} THEN ".mid" ELSE piece

\* if not path.lower().endswith('.mid'): path += '.mid'
WithMidExtension(path) ==
    IF Lower(path.name[Len(path.name)]) = ".mid" THEN path
    ELSE [path EXCEPT !.name = Append(@, ".mid")]

\* browse_file: `path` is what QFileDialog.getSaveFileName returned,
\* NoPath when the user cancelled.
browse_file(path) ==
    /\ dialog = "none"
    /\ save_path' = IF path # NoPath THEN WithMidExtension(path) ELSE save_path
    /\ UNCHANGED <<btn_generate, dialog, progress_bar, request, self_worker,
                   delivered, fs>>
    /\ UNCHANGED wvars

\* The validation without its range check on the length.
InputErrorNoRangeCheck(tempo_text, length_text, save_to) ==
    IF ~ParseInt(tempo_text).ok \/ ~ParseInt(length_text).ok
    THEN "invalid literal for int()"
    ELSE IF save_to = NoPath THEN "No save path specified"
    ELSE ""

\* The try block of start_generation: the message of the ValueError it
\* raises, "" when it raises none.
InputError(tempo_text, length_text, save_to) ==
    IF ~ParseInt(tempo_text).ok \/ ~ParseInt(length_text).ok
    THEN "invalid literal for int()"
    ELSE IF ParseInt(length_text).val < 1 \/ ParseInt(length_text).val > 60
    THEN "Length out of range"
    ELSE IF save_to = NoPath THEN "No save path specified"
    ELSE ""

\* A worker object no thread runs and no queued signal refers to.
SlotFree(w) == pc[w] \in {"new", "done"} /\ delivered[w] = Len(signals[w])

\* The button left enabled while the thread runs.
ButtonLeftEnabled == TRUE

\* self.btn_generate.setEnabled(False)
ButtonWhileRunning == FALSE

\* start_generation, the slot of btn_generate.clicked: a disabled button or
\* a window behind a modal box emits no click.
start_generation(tempo_text, length_text, pattern, crazy_value) ==
    /\ btn_generate
    /\ dialog = "none"
    /\ LET msg == InputError(tempo_text, length_text, save_path)
           w == IF SlotFree("w1") THEN "w1" ELSE "w2"
       IN
       /\ request' = [pending |-> TRUE, tempo_text |-> tempo_text,
                      length_text |-> length_text, save_to |-> save_path,
                      msg |-> msg]
       /\ \/ /\ msg # ""
             \* QMessageBox.warning(self, "Input Error", str(e)); return
             /\ dialog' = "warning"
             /\ UNCHANGED <<btn_generate, self_worker, delivered>>
             /\ UNCHANGED wvars
          \/ /\ msg = ""
             /\ SlotFree(w)
             /\ btn_generate' = ButtonWhileRunning
             /\ worker' = [worker EXCEPT
                             ![w] = GeneratorWorker(ParseInt(tempo_text).val,
                                                    pattern,
                                                    ParseInt(length_text).val,
                                                    save_path, crazy_value)]
             /\ self_worker' = w
             /\ delivered' = [delivered EXCEPT ![w] = 0]
             /\ signals' = [signals EXCEPT ![w] = <<>>]
             /\ measures' = [measures EXCEPT ![w] = 0]
             /\ i' = [i EXCEPT ![w] = 0]
             /\ part' = [part EXCEPT ![w] = {}]
             /\ exc' = [exc EXCEPT ![w] = "none"]
             /\ handle' = [handle EXCEPT ![w] = NoPath]
             /\ prior' = [prior EXCEPT ![w] = fs[save_path]]
             \* self.thread.start()
             /\ pc' = [pc EXCEPT ![w] = "setup"]
             /\ UNCHANGED dialog
    /\ UNCHANGED <<save_path, progress_bar, fs>>

\* The user closes the warning box: start_generation returns.
warning_closed ==
    /\ dialog = "warning"
    /\ dialog' = "none"
    /\ request' = NoRequest
    /\ UNCHANGED <<save_path, btn_generate, progress_bar, self_worker,
                   delivered, fs>>
    /\ UNCHANGED wvars

NextSignal(w) == signals[w][delivered[w] + 1]

\* on_progress
on_progress(w) ==
    /\ delivered[w] < Len(signals[w])
    /\ NextSignal(w).sig = "progress"
    /\ progress_bar' = NextSignal(w).val
    /\ delivered' = [delivered EXCEPT ![w] = @ + 1]
    /\ UNCHANGED <<save_path, btn_generate, dialog, request, self_worker, fs>>
    /\ UNCHANGED wvars

\* on_finished up to QMessageBox.information
on_finished(w) ==
    /\ delivered[w] < Len(signals[w])
    /\ NextSignal(w).sig = "finished"
    /\ dialog = "none"
    /\ dialog' = "information"
    /\ delivered' = [delivered EXCEPT ![w] = @ + 1]
    /\ UNCHANGED <<save_path, btn_generate, progress_bar, request, self_worker,
                   fs>>
    /\ UNCHANGED wvars

\* on_error up to QMessageBox.critical
on_error(w) ==
    /\ delivered[w] < Len(signals[w])
    /\ NextSignal(w).sig = "error"
    /\ dialog = "none"
    /\ dialog' = "critical"
    /\ delivered' = [delivered EXCEPT ![w] = @ + 1]
    /\ UNCHANGED <<save_path, btn_generate, progress_bar, request, self_worker,
                   fs>>
    /\ UNCHANGED wvars

\* The user closes the box of on_finished or on_error:
\* self.btn_generate.setEnabled(True).  A worker whose thread has ended and
\* whose signals are all handled is read by nobody any more: its fields
\* are forgotten here.
outcome_closed ==
    /\ dialog \in {"information", "critical"}
    /\ dialog' = "none"
    /\ btn_generate' = TRUE
    /\ request' = NoRequest
    /\ LET gone == {w \in Workers : pc[w] = "done" /\ SlotFree(w)}
           Forget(f, init) == [w \in Workers |-> IF w \in gone THEN init ELSE f[w]]
       IN
       /\ worker' = Forget(worker, NoWorker)
       /\ pc' = Forget(pc, "new")
       /\ measures' = Forget(measures, 0)
       /\ i' = Forget(i, 0)
       /\ part' = Forget(part, {})
       /\ signals' = Forget(signals, <<>>)
       /\ exc' = Forget(exc, "none")
       /\ handle' = Forget(handle, NoPath)
       /\ prior' = Forget(prior, Absent)
       /\ delivered' = Forget(delivered, 0)
    /\ UNCHANGED <<save_path, progress_bar, self_worker, fs>>

-----------------------------------------------------------------------------
(* Inputs *)

\* Texts typed into tempo_input.
TempoTexts ==
    {<<"1", "2", "0">>, <<"-", "6", "0">>, <<" ", "0", " ">>,
     <<"a", "b", "c">>, <<>>}

\* Texts typed into length_input.
LengthTexts ==
    {<<"1">>, <<"1", "0">>, <<"6", "1">>, <<"0">>, <<"1", ".", "5">>}

\* self.type_combo.addItems(["ARP","CHORD","PLUCK","PAD","BRASS","RAND"])
Patterns == {"ARP", "CHORD", "PLUCK", "PAD", "BRASS", "RAND"}

\* The items of type_combo the user of the window picks from.
ComboChoices == {"ARP"}

\* Positions of crazy_slider (setRange(-10,10)) the user leaves it at.
SliderValues == {0, 10}

\* What the file dialog may return.
BrowseChoices ==
    {NoPath, [dir |-> "home", name |-> <<"a">>], HomeB, MissingA, TmpPath}

\* Arguments of callers that construct a GeneratorWorker themselves.
TempoArgs == {-100, 0, 200}

LengthArgs == {-5, 0, 1, 59, 10000}

MaxCrazyArg == 11

CrazyArgs == (-MaxCrazyArg)..MaxCrazyArg

-----------------------------------------------------------------------------
(* Specifications *)

Init ==
    /\ worker = [w \in Workers |-> NoWorker]
    /\ pc = [w \in Workers |-> "new"]
    /\ measures = [w \in Workers |-> 0]
    /\ i = [w \in Workers |-> 0]
    /\ part = [w \in Workers |-> {}]
    /\ signals = [w \in Workers |-> <<>>]
    /\ exc = [w \in Workers |-> "none"]
    /\ handle = [w \in Workers |-> NoPath]
    /\ prior = [w \in Workers |-> Absent]
    /\ fs = [p \in FilePaths |-> IF p = HomeB THEN PriorContent ELSE Absent]
    /\ save_path = NoPath
    /\ btn_generate = TRUE
    /\ dialog = "none"
    /\ progress_bar = -1
    /\ request = NoRequest
    /\ self_worker = "w1"
    /\ delivered = [w \in Workers |-> 0]

\* The application: one window, the workers it starts.
Next ==
    \/ /\ dialog = "none"
       /\ \E path \in BrowseChoices : browse_file(path)
    \/ /\ btn_generate /\ dialog = "none"
       /\ \E tempo_text \in TempoTexts, length_text \in LengthTexts,
             pattern \in ComboChoices, crazy_value \in SliderValues :
             start_generation(tempo_text, length_text, pattern, crazy_value)
    \/ warning_closed
    \/ \E w \in Workers : on_progress(w)
    \/ \E w \in Workers : on_finished(w)
    \/ \E w \in Workers : on_error(w)
    \/ outcome_closed
    \/ \E w \in Workers : run(w)

Spec == Init /\ [][Next]_vars

\* One worker constructed and started by a caller of its own.
NextWorker ==
    \/ /\ pc["w1"] = "new"
       /\ \E tempo_bpm \in TempoArgs, pattern_type \in Patterns,
             length_sec \in LengthArgs, path \in FilePaths,
             craziness \in CrazyArgs :
             Construct("w1", tempo_bpm, pattern_type, length_sec, path, craziness)
    \/ ThreadStart("w1")
    \/ run("w1")

SpecWorker == Init /\ [][NextWorker]_vars

\* The same, with the thread of the worker scheduled until run() returns.
FairSpecWorker == SpecWorker /\ WF_vars(run("w1"))

\* Arguments of two callers that run a worker each at the same time.
ConcTempoArgs == {120}

ConcLengthArgs == {1, 10}

\* Two workers constructed and started side by side, each with a
\* destination of its own in an existing directory.
NextConc ==
    \/ \E w \in Workers :
          /\ pc[w] = "new"
          /\ \E tempo_bpm \in ConcTempoArgs, length_sec \in ConcLengthArgs,
                path \in {HomeA, HomeB} :
                /\ \A v \in Workers \ {w} :
                      pc[v] # "new" => worker[v].save_path # path
                /\ Construct(w, tempo_bpm, "ARP", length_sec, path, 0)
    \/ \E w \in Workers : ThreadStart(w)
    \/ \E w \in Workers : run(w)

SpecConc == Init /\ [][NextConc]_vars

\* The application, with its threads scheduled, its queued signals handled
\* and its message boxes closed by the user.
FairSpec ==
    /\ Spec
    /\ \A w \in Workers : WF_vars(run(w))
    /\ \A w \in Workers : WF_vars(on_progress(w) \/ on_finished(w) \/ on_error(w))
    /\ WF_vars(warning_closed)
    /\ WF_vars(outcome_closed)

-----------------------------------------------------------------------------
(* Properties *)

\* The values emitted on progress_changed by w so far, in order.
IsProgress(s) == s.sig = "progress"

ProgressValues(w) ==
    LET ps == SelectSeq(signals[w], IsProgress)
    IN  [k \in 1..Len(ps) |-> ps[k].val]

Terminals(w) ==
    {k \in 1..Len(signals[w]) : signals[w][k].sig \in {"finished", "error"}}

Started(w) == pc[w] \notin {"new", "ready"}

C2_OneTerminalLast(w) ==
    /\ Cardinality(Terminals(w)) <= 1
    /\ \A k \in Terminals(w) : k = Len(signals[w])

\* C2: every started run() eventually delivers exactly one terminal outcome,
\* finished(path) or error(message) and never both, and no progress value
\* is emitted after it.
C2_ExactlyOneTerminalOutcome ==
    /\ [](\A w \in Workers : C2_OneTerminalLast(w))
    /\ \A w \in Workers :
          (pc[w] = "setup") ~> (pc[w] = "done" /\ Cardinality(Terminals(w)) = 1)

\* A run that emitted progress values and then its error signal.
C2_Witness ==
    /\ pc["w1"] = "done"
    /\ Len(signals["w1"]) >= 3
    /\ signals["w1"][Len(signals["w1"])].sig = "error"
    /\ signals["w1"][Len(signals["w1"]) - 1].sig = "progress"

\* C3: during a run the file at save_path is at every moment either what it
\* was before the run or the completely written MIDI file of this run
\* (stated for the runs with a positive tempo and a length of at least 1).
C3_DestinationNeverPartial ==
    \A w \in Workers :
       (Started(w) /\ worker[w].tempo > 0 /\ worker[w].length >= 1) =>
          fs[worker[w].save_path] \in {prior[w], Complete(w)}

\* C4: two runs with different destinations do not interfere: a run that
\* reported finished(path) has left at its destination the complete file it
\* serialized itself, and no run fails for want of the staging file the
\* other run moved away.
C4_ConcurrentRunsIndependent ==
    \A w \in Workers :
       /\ (\E k \in Terminals(w) : signals[w][k].sig = "finished") =>
             fs[worker[w].save_path] = Complete(w)
       /\ exc[w] # "replace: FileNotFoundError"

\* C5: when the directory of save_path does not exist the run ends with the
\* error signal and no file at save_path; and every exception raised inside
\* run() ends as the one error signal, never as finished.
C5_FailureBecomesError ==
    \A w \in Workers :
       pc[w] = "done" =>
          /\ worker[w].save_path.dir \notin ExistingDirs =>
                /\ \A k \in Terminals(w) : signals[w][k].sig = "error"
                /\ Terminals(w) # {}
                /\ fs[worker[w].save_path] = Absent
          /\ exc[w] # "none" =>
                /\ Cardinality(Terminals(w)) = 1
                /\ signals[w][Len(signals[w])] = ErrorSignal(exc[w])

\* A run to a missing directory got as far as os.replace and ended in error.
C5_Witness ==
    /\ pc["w1"] = "done"
    /\ worker["w1"].save_path = MissingA
    /\ exc["w1"] = "replace: FileNotFoundError"
    /\ signals["w1"][Len(signals["w1"])].sig = "error"

\* C6: for every configuration start_generation lets through, the loop
\* iterates floor(durationSeconds * tempoBpm / 60 / 4) + 1 measures, and
\* that number is at least 1.
C6_MeasureCountAtLeastOne ==
    \A w \in Workers :
       pc[w] \notin {"new", "ready", "setup", "loop"} =>
          /\ i[w] = ((worker[w].length * worker[w].tempo) \div (60 * 4)) + 1
          /\ i[w] >= 1

\* C7: whatever length_sec and craziness a GeneratorWorker is given, the
\* length it uses is in [1,60] and the craziness in [-10,10].
C7_LengthAndCrazinessClamped ==
    \A w \in Workers :
       pc[w] # "new" =>
          /\ worker[w].length \in 1..60
          /\ worker[w].crazy \in (-10)..10

\* Invalid input of start_generation, read from what the call took from the form.
C8_Invalid(r) ==
    \/ ~ParseInt(r.tempo_text).ok
    \/ ~ParseInt(r.length_text).ok
    \/ ParseInt(r.length_text).val < 1
    \/ ParseInt(r.length_text).val > 60
    \/ r.save_to = NoPath

\* C8: a call of start_generation with invalid input (tempo or length not
\* an integer, length outside [1,60], no save path) creates no worker,
\* starts no thread, touches no file and leaves the Generate button enabled.
C8_InvalidInputRejected ==
    [][(~request.pending /\ request'.pending /\ C8_Invalid(request'))
         => /\ UNCHANGED <<wvars, fs, self_worker, delivered>>
            /\ btn_generate /\ btn_generate'
            /\ dialog' = "warning"]_vars

\* A length of 61 was rejected.
C8_Witness ==
    /\ dialog = "warning"
    /\ request.pending
    /\ request.msg = "Length out of range"
    /\ ParseInt(request.tempo_text).ok
    /\ ParseInt(request.length_text).val = 61

\* C9: every chord the loop appends, the accent chord included, lasts at
\* least 0.25 and every melody note at least 0.125; notes last 0.5 at
\* craziness 10 and 2.0 at craziness -10, and the chord of PAD at
\* craziness 0 lasts 4.
C9_DurationFloors ==
    \A w \in Workers :
       \A e \in part[w] :
          /\ e.kind \in {"chord", "accent"} => RatLeq(<<1, 4>>, e.quarterLength)
          /\ e.kind = "note" => RatLeq(<<1, 8>>, e.quarterLength)
          /\ (e.kind = "note" /\ worker[w].crazy = 10) =>
                RatEq(e.quarterLength, <<1, 2>>)
          /\ (e.kind = "note" /\ worker[w].crazy = -10) =>
                RatEq(e.quarterLength, <<2, 1>>)
          /\ (e.kind = "chord" /\ worker[w].pattern = "PAD" /\ worker[w].crazy = 0) =>
                RatEq(e.quarterLength, <<4, 1>>)

\* A measure at craziness 10 with its chord, its accent and its notes.
C9_Witness ==
    /\ worker["w1"].crazy = 10
    /\ {e.kind : e \in part["w1"]} = {"chord", "accent", "note"}

\* A run is in progress, or its outcome is not handled yet.
RunPending(w) == pc[w] \notin {"new", "done"} \/ ~SlotFree(w)

\* C10: at most one run started from the window is active at a time: the
\* Generate button is disabled from the start of the thread until the
\* terminal outcome of the run is handled, and it is enabled again after
\* every run.
C10_OneRunAtATime ==
    /\ [](/\ Cardinality({w \in Workers : RunPending(w)}) <= 1
          /\ ((\E w \in Workers : RunPending(w))
                 \/ dialog \in {"information", "critical"}) => ~btn_generate)
    /\ (~btn_generate) ~> btn_generate

\* The thread is running and the button is disabled.
C10_Witness ==
    /\ pc["w1"] = "loop"
    /\ i["w1"] >= 1
    /\ ~btn_generate

=============================================================================
